---- MODULE Spec2Model ----
(***************************************************************************)
(* Model of the iptables-save parser (package iptables) and of the         *)
(* collector that drives it (package main).                                *)
(*                                                                         *)
(* Go strings are sequences of one-character strings, so that trimming,    *)
(* prefix tests, field splitting and the counters pattern are computed on  *)
(* the text and not assumed.  A Go map is a record [nil, m]: nil tells the *)
(* nil map from an allocated one, m is the function from keys to values.   *)
(***************************************************************************)
EXTENDS Integers, Sequences, FiniteSets, Bags, TLC

\* ------------------------------------------------------------------ bounds
\* Longest input (in lines) of a parse fed lines of every shape, malformed
\* ones included.
MaxLines == 3

\* Longest input (in lines) of a parse fed the lines of a dump without
\* malformed lines.
MaxDumpLines == 5

\* Longest output (in lines) of the iptables-save process of a collection.
MaxCollectLines == 3

\* Longest input (in lines) of a parse fed counters around the end of the
\* uint64 range.
MaxCounterLines == 3

\* ----------------------------------------------------------- go built-ins
WhiteSpace == {" ", "\t"}

Digits == {"0", "1", "2", "3", "4", "5", "6", "7", "8", "9"}

RECURSIVE TrimLeft(_)
TrimLeft(s) ==
    IF s # <<>> /\ Head(s) \in WhiteSpace THEN TrimLeft(Tail(s)) ELSE s

RECURSIVE TrimRight(_)
TrimRight(s) ==
    IF s # <<>> /\ s[Len(s)] \in WhiteSpace
    THEN TrimRight(SubSeq(s, 1, Len(s) - 1))
    ELSE s

\* strings.TrimSpace
TrimSpace(s) == TrimRight(TrimLeft(s))

\* strings.HasPrefix
HasPrefix(s, prefix) ==
    Len(s) >= Len(prefix) /\ SubSeq(s, 1, Len(prefix)) = prefix

\* strings.TrimPrefix
TrimPrefix(s, prefix) ==
    IF HasPrefix(s, prefix) THEN SubSeq(s, Len(prefix) + 1, Len(s)) ELSE s

\* strings.Fields: the maximal runs of non-space characters, in order.
RECURSIVE FieldsFrom(_, _, _)
FieldsFrom(s, cur, acc) ==
    IF s = <<>>
    THEN IF cur = <<>> THEN acc ELSE Append(acc, cur)
    ELSE IF Head(s) \in WhiteSpace
         THEN FieldsFrom(Tail(s), <<>>, IF cur = <<>> THEN acc ELSE Append(acc, cur))
         ELSE FieldsFrom(Tail(s), Append(cur, Head(s)), acc)

Fields(s) == FieldsFrom(s, <<>>, <<>>)

\* strings.Join(elems, " ")
RECURSIVE Join(_)
Join(elems) ==
    IF elems = <<>> THEN <<>>
    ELSE IF Len(elems) = 1 THEN elems[1]
    ELSE elems[1] \o <<" ">> \o Join(Tail(elems))

\* ------------------------------------------------------ strconv.ParseUint
\* math.MaxUint64 = 18446744073709551615, as its decimal digits: the range
\* test of ParseUint(s, 10, 64) is made on the digits, which is exact for any
\* length of s.
MaxUint64Digits ==
    << "1", "8", "4", "4", "6", "7", "4", "4", "0", "7",
       "3", "7", "0", "9", "5", "5", "1", "6", "1", "5" >>

DigitValue(c) ==
    CASE c = "0" -> 0 [] c = "1" -> 1 [] c = "2" -> 2 [] c = "3" -> 3
      [] c = "4" -> 4 [] c = "5" -> 5 [] c = "6" -> 6 [] c = "7" -> 7
      [] c = "8" -> 8 [] c = "9" -> 9

RECURSIVE StripZeros(_)
StripZeros(s) ==
    IF Len(s) > 1 /\ Head(s) = "0" THEN StripZeros(Tail(s)) ELSE s

\* a > b for two digit strings of the same length
RECURSIVE DigitsGreater(_, _)
DigitsGreater(a, b) ==
    IF a = <<>> THEN FALSE
    ELSE IF DigitValue(Head(a)) # DigitValue(Head(b))
         THEN DigitValue(Head(a)) > DigitValue(Head(b))
         ELSE DigitsGreater(Tail(a), Tail(b))

OutOfRange(s) ==
    LET c == StripZeros(s)
    IN  \/ Len(c) > Len(MaxUint64Digits)
        \/ Len(c) = Len(MaxUint64Digits) /\ DigitsGreater(c, MaxUint64Digits)

\* Mutant: the range error is dropped, the value saturates.
ParseUintSaturate(s) ==
    IF OutOfRange(s) THEN [v |-> MaxUint64Digits, err |-> FALSE]
    ELSE [v |-> StripZeros(s), err |-> FALSE]

\* A uint64 is held as its decimal numeral without leading zeros, which is
\* exact over the whole range 0..2^64-1.
Uint64Zero == <<"0">>

\* strconv.ParseUint(s, 10, 64) of a non-empty digit string: the value, or
\* MaxUint64 and a range error.
ParseUint(s) ==
    IF OutOfRange(s) THEN [v |-> MaxUint64Digits, err |-> TRUE]
    ELSE [v |-> StripZeros(s), err |-> FALSE]

\* ---------------------------------------------------------- parseCounters
IndexOf(s, c) ==
    IF \E i \in 1..Len(s) : s[i] = c
    THEN CHOOSE i \in 1..Len(s) : s[i] = c /\ \A j \in 1..(i - 1) : s[j] # c
    ELSE 0

AllDigits(s) == s # <<>> /\ \A i \in 1..Len(s) : s[i] \in Digits

\* regexp `^\[(\d+):(\d+)]$`: the two digit groups, or <<>> on no match.
FindStringSubmatch(field) ==
    IF Len(field) >= 2 /\ field[1] = "[" /\ field[Len(field)] = "]"
    THEN LET inner == SubSeq(field, 2, Len(field) - 1)
             colon == IndexOf(inner, ":")
         IN  IF colon = 0 THEN <<>>
             ELSE LET a == SubSeq(inner, 1, colon - 1)
                      b == SubSeq(inner, colon + 1, Len(inner))
                  IN  IF AllDigits(a) /\ AllDigits(b)
                      THEN <<field, a, b>>
                      ELSE <<>>
    ELSE <<>>

parseCounters(field) ==
    LET parts == FindStringSubmatch(field)
    IN  IF Len(parts) # 3
        THEN [packets |-> Uint64Zero, bytes |-> Uint64Zero, ok |-> FALSE]
        ELSE LET p == ParseUint(parts[2])
                 b == ParseUint(parts[3])
             IN  [packets |-> p.v, bytes |-> b.v, ok |-> ~p.err /\ ~b.err]

\* ------------------------------------------------------------- go values
\* The nil map: reading it yields zero values, assigning to it panics.
NilMap == [nil |-> TRUE, m |-> <<>>]

\* make(map[...]...)
MakeMap == [nil |-> FALSE, m |-> <<>>]

Keys(map) == DOMAIN map.m

\* map[k], the zero value when k is absent (or the map nil)
MapGet(map, k, zero) == IF k \in DOMAIN map.m THEN map.m[k] ELSE zero

\* map[k] = v on an allocated map
MapPut(map, k, v) ==
    [nil |-> FALSE,
     m   |-> [x \in (DOMAIN map.m) \cup {k} |-> IF x = k THEN v ELSE map.m[x]]]

\* Chain{}: the zero value of the Chain struct
ZeroChain ==
    [Policy |-> <<>>, Packets |-> Uint64Zero, Bytes |-> Uint64Zero, Rules |-> <<>>]

\* A nil error
NilErr == [kind |-> "nil"]

\* ParseError{Message, LineNumber, LineText}
ParseError(message, lineNumber, lineText) ==
    [kind |-> "ParseError", Message |-> message,
     LineNumber |-> lineNumber, LineText |-> lineText]

\* errors.Join(a, b): nil when both are nil, else one error wrapping the
\* non-nil ones in argument order (it nests, it does not flatten).
errorsJoin(a, b) ==
    LET errs == SelectSeq(<<a, b>>, LAMBDA e : e # NilErr)
    IN  IF errs = <<>> THEN NilErr ELSE [kind |-> "join", errs |-> errs]

\* The ParseErrors an error wraps, in the order its Error() text lists them.
RECURSIVE Leaves(_)
RECURSIVE LeavesOfSeq(_)
Leaves(e) ==
    IF e.kind = "nil" THEN <<>>
    ELSE IF e.kind = "join" THEN LeavesOfSeq(e.errs)
    ELSE <<e>>
LeavesOfSeq(es) ==
    IF es = <<>> THEN <<>> ELSE Leaves(Head(es)) \o LeavesOfSeq(Tail(es))

\* ------------------------------------------------------------- ruleParser
\* The rule-line tokenizer.  n counts the tokens handled; almostChain is set
\* between a "-A" and the token after it.
NewRuleParser ==
    [packets |-> Uint64Zero, bytes |-> Uint64Zero, countersOk |-> FALSE, chain |-> <<>>,
     flags |-> <<>>, n |-> 0, almostChain |-> FALSE]

ruleParserHandleToken(rp, token) ==
    LET q == [rp EXCEPT !.n = @ + 1]
    IN  IF rp.n = 0
        THEN LET c == parseCounters(token)
             IN  [q EXCEPT !.packets = c.packets, !.bytes = c.bytes,
                           !.countersOk = c.ok]
        ELSE IF rp.almostChain
             THEN [q EXCEPT !.chain = token, !.almostChain = FALSE]
        ELSE IF token = <<"-", "A">> /\ rp.chain = <<>>
             THEN [q EXCEPT !.almostChain = TRUE]
        ELSE [q EXCEPT !.flags = Append(@, token)]

\* End of the tokens: a "-A" that nothing followed is no chain selection, it
\* stays a flag.
ruleParserFlush(rp) ==
    IF rp.almostChain
    THEN [rp EXCEPT !.flags = Append(@, <<"-", "A">>), !.almostChain = FALSE]
    ELSE rp

RECURSIVE HandleTokens(_, _)
HandleTokens(rp, fields) ==
    IF fields = <<>> THEN rp
    ELSE HandleTokens(ruleParserHandleToken(rp, Head(fields)), Tail(fields))

\* ----------------------------------------------------------------- parser
\* parser{}: the zero value.  panic is not a field of the Go struct: it
\* records that the goroutine running the parser has panicked.
NewParser ==
    [result |-> NilMap, currentTableName |-> <<>>, currentTable |-> NilMap,
     line |-> 0, err |-> NilErr, panic |-> FALSE]

\* Mutant: the table is merged into the one the result holds under the name.
flushMerge(p) ==
    IF p.currentTableName # <<>>
    THEN LET old == MapGet(p.result, p.currentTableName, NilMap)
             cur == p.currentTable
             merged == [nil |-> old.nil /\ cur.nil,
                        m   |-> [c \in Keys(old) \cup Keys(cur) |->
                                    IF c \in Keys(cur) THEN cur.m[c] ELSE old.m[c]]]
         IN  [p EXCEPT !.result = MapPut(p.result, p.currentTableName, merged),
                       !.currentTableName = <<>>,
                       !.currentTable = NilMap]
    ELSE p

\* Mutant: the table is written to the result and stays open.
flushKeepOpen(p) ==
    IF p.currentTableName # <<>>
    THEN [p EXCEPT !.result = MapPut(p.result, p.currentTableName, p.currentTable)]
    ELSE p

flush(p) ==
    IF p.currentTableName # <<>>
    THEN [p EXCEPT !.result = MapPut(p.result, p.currentTableName, p.currentTable),
                   !.currentTableName = <<>>,
                   !.currentTable = NilMap]
    ELSE p

\* Mutant: a chain whose counters are both zero is taken for absent and not
\* stored.
handleNewChainSkipZero(p, line) ==
    LET fields == Fields(line)
    IN  IF Len(fields) # 3
        THEN [p EXCEPT !.err = errorsJoin(p.err, ParseError("expected 3 fields", p.line, line))]
        ELSE LET name == TrimPrefix(fields[1], <<":">>)
                 c    == parseCounters(fields[3])
             IN  IF ~c.ok
                 THEN [p EXCEPT !.err = errorsJoin(p.err,
                                   ParseError("expected [packets:bytes]", p.line, line))]
                 ELSE LET table == IF p.currentTable.nil THEN MakeMap ELSE p.currentTable
                          chain == [Policy |-> fields[2], Packets |-> c.packets,
                                    Bytes |-> c.bytes, Rules |-> <<>>]
                      IN  IF c.packets = Uint64Zero /\ c.bytes = Uint64Zero
                          THEN [p EXCEPT !.currentTable = table]
                          ELSE [p EXCEPT !.currentTable = MapPut(table, name, chain)]

\* Mutant: a chain declared again keeps the rules it held.
handleNewChainKeepRules(p, line) ==
    LET fields == Fields(line)
    IN  IF Len(fields) # 3
        THEN [p EXCEPT !.err = errorsJoin(p.err, ParseError("expected 3 fields", p.line, line))]
        ELSE LET name == TrimPrefix(fields[1], <<":">>)
                 c    == parseCounters(fields[3])
             IN  IF ~c.ok
                 THEN [p EXCEPT !.err = errorsJoin(p.err,
                                   ParseError("expected [packets:bytes]", p.line, line))]
                 ELSE LET table == IF p.currentTable.nil THEN MakeMap ELSE p.currentTable
                          chain == [Policy |-> fields[2], Packets |-> c.packets,
                                    Bytes |-> c.bytes,
                                    Rules |-> MapGet(table, name, ZeroChain).Rules]
                      IN  [p EXCEPT !.currentTable = MapPut(table, name, chain)]

handleNewChain(p, line) ==
    LET fields == Fields(line)
    IN  IF Len(fields) # 3
        THEN [p EXCEPT !.err = errorsJoin(p.err, ParseError("expected 3 fields", p.line, line))]
        ELSE LET name == TrimPrefix(fields[1], <<":">>)
                 c    == parseCounters(fields[3])
             IN  IF ~c.ok
                 THEN [p EXCEPT !.err = errorsJoin(p.err,
                                   ParseError("expected [packets:bytes]", p.line, line))]
                 ELSE LET table == IF p.currentTable.nil THEN MakeMap ELSE p.currentTable
                          chain == [Policy |-> fields[2], Packets |-> c.packets,
                                    Bytes |-> c.bytes, Rules |-> <<>>]
                      IN  [p EXCEPT !.currentTable = MapPut(table, name, chain)]

doesRuleExistInChain(rules, r) == \E i \in 1..Len(rules) : rules[i].Rule = r.Rule

\* Mutant: no duplicate filter, every rule line is appended.
insertRuleNoFilter(p, name, r) ==
    LET chain == MapGet(p.currentTable, name, ZeroChain)
    IN  IF p.currentTable.nil
        THEN [p EXCEPT !.panic = TRUE]
        ELSE [p EXCEPT !.currentTable =
                 MapPut(p.currentTable, name, [chain EXCEPT !.Rules = Append(@, r)])]

\* Mutant: a duplicate rule line replaces the counters of the entry held.
insertRuleLastWins(p, name, r) ==
    LET chain == MapGet(p.currentTable, name, ZeroChain)
    IN  IF doesRuleExistInChain(chain.Rules, r)
        THEN [p EXCEPT !.currentTable =
                 MapPut(p.currentTable, name,
                        [chain EXCEPT !.Rules =
                            [i \in 1..Len(chain.Rules) |->
                                IF chain.Rules[i].Rule = r.Rule THEN r
                                ELSE chain.Rules[i]]])]
        ELSE IF p.currentTable.nil
             THEN [p EXCEPT !.panic = TRUE]
             ELSE [p EXCEPT !.currentTable =
                      MapPut(p.currentTable, name,
                             [chain EXCEPT !.Rules = Append(@, r)])]

\* Mutant: a new rule is put in front of the rules held.
insertRuleFront(p, name, r) ==
    LET chain == MapGet(p.currentTable, name, ZeroChain)
    IN  IF doesRuleExistInChain(chain.Rules, r)
        THEN p
        ELSE IF p.currentTable.nil
             THEN [p EXCEPT !.panic = TRUE]
             ELSE [p EXCEPT !.currentTable =
                      MapPut(p.currentTable, name,
                             [chain EXCEPT !.Rules = <<r>> \o @])]

\* The second half of handleRule: the rule r goes into the chain `name` of
\* the open table, unless the chain holds a rule of that text.  Reading the
\* nil map yields the zero Chain; assigning to it panics (assignment to
\* entry in nil map).
insertRule(p, name, r) ==
    LET chain == MapGet(p.currentTable, name, ZeroChain)
    IN  IF doesRuleExistInChain(chain.Rules, r)
        THEN p
        ELSE IF p.currentTable.nil
             THEN [p EXCEPT !.panic = TRUE]
             ELSE [p EXCEPT !.currentTable =
                      MapPut(p.currentTable, name,
                             [chain EXCEPT !.Rules = Append(@, r)])]

\* Mutant: the target chain is looked for before the counters.
handleRuleTargetFirst(p, line) ==
    LET fields    == Fields(line)
        subParser == ruleParserFlush(HandleTokens(NewRuleParser, fields))
    IN  IF subParser.chain = <<>>
        THEN [p EXCEPT !.err = errorsJoin(p.err,
                          ParseError("expected -A chain ...", p.line, line))]
        ELSE IF ~subParser.countersOk
        THEN [p EXCEPT !.err = errorsJoin(p.err,
                          ParseError("expected [packets:bytes]", p.line, line))]
        ELSE insertRule(p, subParser.chain,
                        [Packets |-> subParser.packets, Bytes |-> subParser.bytes,
                         Rule |-> Join(subParser.flags)])

handleRule(p, line) ==
    LET fields    == Fields(line)
        subParser == ruleParserFlush(HandleTokens(NewRuleParser, fields))
    IN  IF ~subParser.countersOk
        THEN [p EXCEPT !.err = errorsJoin(p.err,
                          ParseError("expected [packets:bytes]", p.line, line))]
        ELSE IF subParser.chain = <<>>
        THEN [p EXCEPT !.err = errorsJoin(p.err,
                          ParseError("expected -A chain ...", p.line, line))]
        ELSE insertRule(p, subParser.chain,
                        [Packets |-> subParser.packets, Bytes |-> subParser.bytes,
                         Rule |-> Join(subParser.flags)])

\* Mutant: an unhandled line closes the open table.
dispatchLineFlushUnhandled(p, line) ==
    IF line = <<>> \/ HasPrefix(line, <<"#">>) THEN p
    ELSE IF line = <<"C", "O", "M", "M", "I", "T">> THEN flush(p)
    ELSE IF TrimPrefix(line, <<"*">>) # line
         THEN [flush(p) EXCEPT !.currentTableName = TrimPrefix(line, <<"*">>)]
    ELSE IF HasPrefix(line, <<":">>) THEN handleNewChain(p, line)
    ELSE IF HasPrefix(line, <<"[">>) THEN handleRule(p, line)
    ELSE [flush(p) EXCEPT !.err = errorsJoin(p.err, ParseError("unhandled line", p.line, line))]

\* Mutant: only the blank lines are passed over, a comment is an unhandled
\* line.
dispatchLineBlankOnly(p, line) ==
    IF line = <<>> THEN p
    ELSE IF line = <<"C", "O", "M", "M", "I", "T">> THEN flush(p)
    ELSE IF TrimPrefix(line, <<"*">>) # line
         THEN [flush(p) EXCEPT !.currentTableName = TrimPrefix(line, <<"*">>)]
    ELSE IF HasPrefix(line, <<":">>) THEN handleNewChain(p, line)
    ELSE IF HasPrefix(line, <<"[">>) THEN handleRule(p, line)
    ELSE [p EXCEPT !.err = errorsJoin(p.err, ParseError("unhandled line", p.line, line))]

\* handleLine after the line count and the trimming: the dispatch on the
\* line's shape.
dispatchLine(p, line) ==
    IF line = <<>> \/ HasPrefix(line, <<"#">>) THEN p
    ELSE IF line = <<"C", "O", "M", "M", "I", "T">> THEN flush(p)
    ELSE IF TrimPrefix(line, <<"*">>) # line
         THEN [flush(p) EXCEPT !.currentTableName = TrimPrefix(line, <<"*">>)]
    ELSE IF HasPrefix(line, <<":">>) THEN handleNewChain(p, line)
    ELSE IF HasPrefix(line, <<"[">>) THEN handleRule(p, line)
    ELSE [p EXCEPT !.err = errorsJoin(p.err, ParseError("unhandled line", p.line, line))]

\* Mutant: the scan stops taking lines in once an error is recorded.
handleLineStopAtError(p, raw) ==
    IF p.err # NilErr THEN [p EXCEPT !.line = @ + 1]
    ELSE dispatchLine([p EXCEPT !.line = @ + 1], TrimSpace(raw))

\* Mutant: the blank and the comment lines are not counted.
handleLineCountHandled(p, raw) ==
    IF TrimSpace(raw) = <<>> \/ HasPrefix(TrimSpace(raw), <<"#">>) THEN p
    ELSE dispatchLine([p EXCEPT !.line = @ + 1], TrimSpace(raw))

handleLine(p, raw) == dispatchLine([p EXCEPT !.line = @ + 1], TrimSpace(raw))

\* ------------------------------------------------------------ the inputs
\* The lines a dump is made of, as the scanner delivers them (without the
\* line end): the five shapes of the grammar, well formed and malformed.
SP == <<" ">>

TableF == <<"*", "f">>
TableN == <<"*", "n">>
TableNoName == <<"*">>
Commit == <<"C", "O", "M", "M", "I", "T">>
ChainI == <<":", "I">> \o SP \o <<"A">> \o SP \o <<"[", "1", ":", "2", "]">>
ChainO == <<":", "O">> \o SP \o <<"-">> \o SP \o <<"[", "0", ":", "0", "]">>
RuleIj == <<"[", "3", ":", "4", "]">> \o SP \o <<"-", "A">> \o SP \o <<"I">> \o SP \o <<"-", "j">>
RuleIjAgain == <<"[", "5", ":", "6", "]">> \o SP \o <<"-", "A">> \o SP \o <<"I">> \o SP \o <<"-", "j">>
RuleId == <<"[", "7", ":", "8", "]">> \o SP \o <<"-", "A">> \o SP \o <<"I">> \o SP \o <<"-", "d">>
Comment == <<"#", "c">>
Blank == <<" ", "\t">>
BadChainFields == <<":", "I">> \o SP \o <<"A">>
BadChainOverflow ==
    <<":", "I">> \o SP \o <<"A">> \o SP
    \o <<"[", "9", "9", "9", "9", "9", "9", "9", "9", "9", "9",
              "9", "9", "9", "9", "9", "9", "9", "9", "9", "9", ":", "0", "]">>
BadRuleBoth == <<"[", "x", "]">> \o SP \o <<"-", "j">>
BadRuleNoTarget == <<"[", "3", ":", "4", "]">> \o SP \o <<"-", "j">>
Unhandled == <<"\t", "x", " ">>

\* The lines of a dump free of malformed lines.
DumpLines ==
    { TableF, TableNoName, Commit, ChainI, ChainO, RuleIj, RuleIjAgain, RuleId }

\* Lines of every shape.
Lines ==
    DumpLines \cup
    { TableN, Comment, Blank, BadChainFields, BadChainOverflow, BadRuleBoth,
      BadRuleNoTarget, Unhandled }

\* The lines the iptables-save process of a collection writes.
CollectLines ==
    { TableF, Commit, ChainI, ChainO, RuleIj, RuleIjAgain, BadChainFields, Unhandled }

\* Counters tokens around the end of the uint64 range: 2^64-1 twice, 2^64 as
\* packets, 2^64 as bytes, twenty nines, 7 behind twenty-two zeros, and two
\* tokens off the [digits:digits] grammar.
CtrSmall == <<"[", "1", ":", "2", "]">>
CtrMax == <<"[">> \o MaxUint64Digits \o <<":">> \o MaxUint64Digits \o <<"]">>
TwoTo64 ==
    << "1", "8", "4", "4", "6", "7", "4", "4", "0", "7",
       "3", "7", "0", "9", "5", "5", "1", "6", "1", "6" >>
CtrPacketsOver == <<"[">> \o TwoTo64 \o <<":", "0", "]">>
CtrBytesOver == <<"[", "0", ":">> \o TwoTo64 \o <<"]">>
CtrNines ==
    <<"[", "9", "9", "9", "9", "9", "9", "9", "9", "9", "9",
           "9", "9", "9", "9", "9", "9", "9", "9", "9", "9", ":", "0", "]">>
CtrZeros ==
    <<"[", "0", "0", "0", "0", "0", "0", "0", "0", "0", "0", "0",
           "0", "0", "0", "0", "0", "0", "0", "0", "0", "0", "0", "7", ":", "0", "0", "]">>
CtrSigned == <<"[", "-", "1", ":", "2", "]">>
CtrNoBytes == <<"[", "1", ":", "]">>

CounterTokens ==
    { CtrSmall, CtrMax, CtrPacketsOver, CtrBytesOver, CtrNines, CtrZeros,
      CtrSigned, CtrNoBytes }

\* A chain header and a rule line carrying a counters token
ChainWith(token) == <<":", "I">> \o SP \o <<"A">> \o SP \o token
RuleWith(token) == token \o SP \o <<"-", "A">> \o SP \o <<"I">> \o SP \o <<"-", "j">>

\* The lines of a dump whose counters run up to the end of the range and
\* beyond.
CounterLines ==
    {TableF} \cup {ChainWith(t) : t \in CounterTokens}
             \cup {RuleWith(t) : t \in CounterTokens}

\* What a read of the stream can fail with (bufio.ErrTooLong, a closed pipe).
ReadErr == [kind |-> "read"]

\* ------------------------------------------------------------------ state
VARIABLES
    parser,     \* ParseIptablesSave's local parser
    input,      \* the lines scanner.Scan() has delivered so far
    pc,         \* where ParseIptablesSave is: "idle" (not called), "scan",
                \* "returned" (in GetTables: sending its result), "sent",
                \* "panic"
    ret,        \* what ParseIptablesSave returned: [tables, err]
    cpc,        \* where Collect is: "off" (no collection: the parser is run
                \* alone), "StdoutPipe", "Start", "receive", "Wait", "emit",
                \* "done"
    cmd,        \* the iptables-save process: "new", "running",
                \* "startfailed", "exited" (status zero), "failed" (exited
                \* with another status)
    r,          \* GetTables: what came out of resultCh
    got,        \* Collect: what GetTables returned, [tables, err]
    metricChan  \* the metrics Collect has sent, as a bag

parseVars == <<parser, input, pc, ret>>

collectVars == <<cpc, cmd, r, got, metricChan>>

vars == <<parser, input, pc, ret, cpc, cmd, r, got, metricChan>>

NoReturn == [tables |-> NilMap, err |-> NilErr]

\* ParseIptablesSave called on a reader, outside any collection.
Init ==
    /\ parser = NewParser
    /\ input = <<>>
    /\ pc = "scan"
    /\ ret = NoReturn
    /\ cpc = "off"
    /\ cmd = "new"
    /\ r = NoReturn
    /\ got = NoReturn
    /\ metricChan = EmptyBag

\* One turn of the loop: scanner.Scan() delivers a line (one of `lines`, the
\* input being at most `max` lines long), handleLine takes it.
Scan(lines, max) ==
    /\ pc = "scan"
    /\ Len(input) < max
    /\ \E l \in lines :
         /\ parser' = handleLine(parser, l)
         /\ input' = Append(input, l)
    /\ pc' = IF parser'.panic THEN "panic" ELSE "scan"
    /\ UNCHANGED ret
    /\ UNCHANGED collectVars

\* Mutant: the tables assembled so far are returned beside the error.
ParseReturnPartial(p, scanErr) ==
    LET q == flush(p)
    IN  IF q.err # NilErr THEN [tables |-> q.result, err |-> q.err]
        ELSE IF scanErr # NilErr THEN [tables |-> q.result, err |-> scanErr]
        ELSE [tables |-> q.result, err |-> NilErr]

\* Mutant: no flush at the end of the stream.
ParseReturnNoFlush(p, scanErr) ==
    IF p.err # NilErr THEN [tables |-> NilMap, err |-> p.err]
    ELSE IF scanErr # NilErr THEN [tables |-> NilMap, err |-> scanErr]
    ELSE [tables |-> p.result, err |-> NilErr]

\* What ParseIptablesSave returns once scanner.Scan() is false, scanErr being
\* scanner.Err(): the final flush, then the parse error, the read error or
\* the result.
ParseReturn(p, scanErr) ==
    LET q == flush(p)
    IN  IF q.err # NilErr THEN [tables |-> NilMap, err |-> q.err]
        ELSE IF scanErr # NilErr THEN [tables |-> NilMap, err |-> scanErr]
        ELSE [tables |-> q.result, err |-> NilErr]

\* scanner.Scan() is false: the stream has ended, or a read has failed.
ScanEnd ==
    /\ pc = "scan"
    /\ \E scanErr \in {NilErr, ReadErr} :
         /\ parser' = flush(parser)
         /\ ret' = ParseReturn(parser, scanErr)
    /\ pc' = "returned"
    /\ UNCHANGED input
    /\ UNCHANGED collectVars

\* A parse of any text.
Next == Scan(Lines, MaxLines) \/ ScanEnd

Spec == Init /\ [][Next]_vars

\* A parse of a dump without malformed lines.
DumpNext == Scan(DumpLines, MaxDumpLines) \/ ScanEnd

DumpSpec == Init /\ [][DumpNext]_vars

\* A parse of a dump whose counters run up to the end of the uint64 range
\* and beyond.
CounterNext == Scan(CounterLines, MaxCounterLines) \/ ScanEnd

CounterSpec == Init /\ [][CounterNext]_vars

\* -------------------------------------------------- GetTables and Collect
\* The errors of the process: cmd.StdoutPipe, cmd.Start, cmd.Wait
PipeErr == [kind |-> "pipe"]

StartErr == [kind |-> "start"]

ExitErr == [kind |-> "exit"]

\* prometheus.MustNewConstMetric(desc, _, value, labels...)
Metric(desc, value, labels) == [desc |-> desc, value |-> value, labels |-> labels]

\* float64(v): the metric value, kept as the numeral of v (the conversion
\* rounds above 2^53, which no statement here depends on)
float64(v) == v

RECURSIVE RuleMetrics(_, _, _)
RuleMetrics(tableName, chainName, rules) ==
    IF rules = <<>> THEN EmptyBag
    ELSE SetToBag({Metric("iptables_rule_packets_total", float64(Head(rules).Packets),
                          <<tableName, chainName, Head(rules).Rule>>)})
         (+) SetToBag({Metric("iptables_rule_bytes_total", float64(Head(rules).Bytes),
                          <<tableName, chainName, Head(rules).Rule>>)})
         (+) RuleMetrics(tableName, chainName, Tail(rules))

ChainMetrics(tableName, chainName, chain) ==
    SetToBag({Metric("iptables_default_packets_total", float64(chain.Packets),
                     <<tableName, chainName, chain.Policy>>)})
    (+) SetToBag({Metric("iptables_default_bytes_total", float64(chain.Bytes),
                     <<tableName, chainName, chain.Policy>>)})
    (+) RuleMetrics(tableName, chainName, chain.Rules)

RECURSIVE TableMetrics(_, _, _)
TableMetrics(tableName, table, names) ==
    IF names = {} THEN EmptyBag
    ELSE LET c == CHOOSE x \in names : TRUE
         IN  ChainMetrics(tableName, c, table.m[c])
             (+) TableMetrics(tableName, table, names \ {c})

RECURSIVE TablesMetrics(_, _)
TablesMetrics(tables, names) ==
    IF names = {} THEN EmptyBag
    ELSE LET t == CHOOSE x \in names : TRUE
         IN  TableMetrics(t, tables.m[t], Keys(tables.m[t]))
             (+) TablesMetrics(tables, names \ {t})

\* What Collect sends on metricChan once GetTables has returned (tables, err).
\* The duration is a time, which the model does not measure: its value is 0.
CollectMetrics(tables, err) ==
    SetToBag({Metric("iptables_scrape_duration_seconds", 0, <<>>)})
    (+) IF err # NilErr
        THEN SetToBag({Metric("iptables_scrape_success", 0, <<>>)})
        ELSE SetToBag({Metric("iptables_scrape_success", 1, <<>>)})
             (+) TablesMetrics(tables, Keys(tables))

\* Collect is called: GetTables is about to run, no goroutine parses yet.
CollectInit ==
    /\ parser = NewParser
    /\ input = <<>>
    /\ pc = "idle"
    /\ ret = NoReturn
    /\ cpc = "StdoutPipe"
    /\ cmd = "new"
    /\ r = NoReturn
    /\ got = NoReturn
    /\ metricChan = EmptyBag

\* cmd.StdoutPipe() fails: GetTables returns its error.
StdoutPipeFails ==
    /\ cpc = "StdoutPipe"
    /\ got' = [tables |-> NilMap, err |-> PipeErr]
    /\ cpc' = "emit"
    /\ UNCHANGED <<parser, input, pc, ret, cmd, r, metricChan>>

\* cmd.StdoutPipe() succeeds; the goroutine calling ParseIptablesSave(pipe)
\* is started.
StartParser ==
    /\ cpc = "StdoutPipe"
    /\ pc = "idle"
    /\ pc' = "scan"
    /\ cpc' = "Start"
    /\ UNCHANGED <<parser, input, ret, cmd, r, got, metricChan>>

\* cmd.Start() fails: GetTables returns its error without receiving from
\* resultCh; the pipe is closed.
StartFails ==
    /\ cpc = "Start"
    /\ cmd' = "startfailed"
    /\ got' = [tables |-> NilMap, err |-> StartErr]
    /\ cpc' = "emit"
    /\ UNCHANGED <<parser, input, pc, ret, r, metricChan>>

\* cmd.Start() succeeds.
StartSucceeds ==
    /\ cpc = "Start"
    /\ cmd' = "running"
    /\ cpc' = "receive"
    /\ UNCHANGED <<parser, input, pc, ret, r, got, metricChan>>

\* The process writes a line, the parser takes it.
ProcessOutput ==
    /\ cmd = "running"
    /\ Scan(CollectLines, MaxCollectLines)

\* The pipe delivers no more: the process has closed its output, a read has
\* failed, or the pipe was closed by the failed Start.
PipeEnd ==
    /\ cmd \in {"running", "startfailed"}
    /\ ScanEnd

\* r := <-resultCh meets the goroutine's send on the unbuffered channel.
Receive ==
    /\ cpc = "receive"
    /\ pc = "returned"
    /\ r' = ret
    /\ pc' = "sent"
    /\ cpc' = "Wait"
    /\ UNCHANGED <<parser, input, ret, cmd, got, metricChan>>

\* Mutant: the parser's error goes before the process's exit error.
GetTablesReturnParseFirst(res, waitErr) ==
    IF res.err # NilErr THEN res
    ELSE IF waitErr # NilErr THEN [tables |-> NilMap, err |-> waitErr]
    ELSE res

\* What GetTables returns after cmd.Wait() has returned waitErr
GetTablesReturn(res, waitErr) ==
    IF waitErr # NilErr THEN [tables |-> NilMap, err |-> waitErr] ELSE res

\* cmd.Wait(): the process has exited, with status zero or not.
Wait ==
    /\ cpc = "Wait"
    /\ \E waitErr \in {NilErr, ExitErr} :
         /\ got' = GetTablesReturn(r, waitErr)
         /\ cmd' = IF waitErr = NilErr THEN "exited" ELSE "failed"
    /\ cpc' = "emit"
    /\ UNCHANGED <<parser, input, pc, ret, r, metricChan>>

\* The rest of Collect, GetTables having returned.
Emit ==
    /\ cpc = "emit"
    /\ metricChan' = CollectMetrics(got.tables, got.err)
    /\ cpc' = "done"
    /\ UNCHANGED <<parser, input, pc, ret, cmd, r, got>>

CollectNext ==
    \/ StdoutPipeFails
    \/ StartParser
    \/ StartFails
    \/ StartSucceeds
    \/ ProcessOutput
    \/ PipeEnd
    \/ Receive
    \/ Wait
    \/ Emit

\* One collection cycle.
CollectSpec == CollectInit /\ [][CollectNext]_vars

\* One collection cycle under the Go scheduler: a goroutine that can take a
\* step takes it in the end, and so does the process.
CollectFairSpec == CollectInit /\ [][CollectNext]_vars /\ WF_vars(CollectNext)

\* ------------------------------------------------- the grammar of a dump
\* The shapes of a line, read off the wire format: what the claims call a
\* table header, a chain header, a rule line, an invalid line.
IsIgnored(raw) == TrimSpace(raw) = <<>> \/ Head(TrimSpace(raw)) = "#"

IsCommit(raw) == TrimSpace(raw) = Commit

IsTableHeader(raw) ==
    ~IsIgnored(raw) /\ ~IsCommit(raw) /\ Head(TrimSpace(raw)) = "*"

\* The name a table header line opens
HeaderName(raw) == Tail(TrimSpace(raw))

IsChainLine(raw) ==
    ~IsIgnored(raw) /\ ~IsCommit(raw) /\ Head(TrimSpace(raw)) = ":"

IsRuleLine(raw) ==
    ~IsIgnored(raw) /\ ~IsCommit(raw) /\ Head(TrimSpace(raw)) = "["

HasCounters(token) == FindStringSubmatch(token) # <<>> /\ parseCounters(token).ok

ValidChainLine(raw) ==
    /\ IsChainLine(raw)
    /\ Len(Fields(raw)) = 3
    /\ HasCounters(Fields(raw)[3])

\* The tokens of a rule line name a target chain: "-A" and a token after it
HasTarget(raw) ==
    \E i \in 2..(Len(Fields(raw)) - 1) : Fields(raw)[i] = <<"-", "A">>

ValidRuleLine(raw) ==
    /\ IsRuleLine(raw)
    /\ HasCounters(Fields(raw)[1])
    /\ HasTarget(raw)

Invalid(raw) ==
    /\ ~IsIgnored(raw)
    /\ ~IsCommit(raw)
    /\ ~IsTableHeader(raw)
    /\ ~ValidChainLine(raw)
    /\ ~ValidRuleLine(raw)

\* What a valid rule line says: its target chain is the token after the
\* first "-A", its canonical text the other tokens but the counters, joined
\* by single spaces.
RuleChainOf(raw) ==
    LET f == Fields(raw)
        a == CHOOSE i \in 2..(Len(f) - 1) :
                 /\ f[i] = <<"-", "A">>
                 /\ \A j \in 2..(i - 1) : f[j] # <<"-", "A">>
    IN  f[a + 1]

RuleTextOf(raw) ==
    LET f == Fields(raw)
        a == CHOOSE i \in 2..(Len(f) - 1) :
                 /\ f[i] = <<"-", "A">>
                 /\ \A j \in 2..(i - 1) : f[j] # <<"-", "A">>
    IN  Join(SubSeq(f, 2, a - 1) \o SubSeq(f, a + 2, Len(f)))

\* A line as the grammar reads it: its kind and what it declares.
Shape(raw) ==
    LET none == [kind |-> "ignored", name |-> <<>>, policy |-> <<>>,
                 packets |-> Uint64Zero, bytes |-> Uint64Zero, text |-> <<>>]
    IN  IF IsIgnored(raw) THEN none
        ELSE IF IsCommit(raw) THEN [none EXCEPT !.kind = "commit"]
        ELSE IF IsTableHeader(raw)
             THEN [none EXCEPT !.kind = "table", !.name = HeaderName(raw)]
        ELSE IF ValidChainLine(raw)
             THEN [none EXCEPT !.kind = "chain",
                               !.name = Tail(Fields(raw)[1]),
                               !.policy = Fields(raw)[2],
                               !.packets = parseCounters(Fields(raw)[3]).packets,
                               !.bytes = parseCounters(Fields(raw)[3]).bytes]
        ELSE IF ValidRuleLine(raw)
             THEN [none EXCEPT !.kind = "rule",
                               !.name = RuleChainOf(raw),
                               !.packets = parseCounters(Fields(raw)[1]).packets,
                               !.bytes = parseCounters(Fields(raw)[1]).bytes,
                               !.text = RuleTextOf(raw)]
        ELSE [none EXCEPT !.kind = "invalid"]

\* Shape, tabulated over the lines an input is made of
ShapeOf == [l \in Lines |-> Shape(l)]

\* The input, line by line, as the grammar reads it
Shapes == [i \in 1..Len(input) |-> ShapeOf[input[i]]]

SetMax(S) == CHOOSE x \in S : \A y \in S : y <= x

SetMin(S) == CHOOSE x \in S : \A y \in S : x <= y

\* In what follows L is Shapes, the read input.
\* The last COMMIT or table header line among the first k (0 when none)
LastBoundary(L, k) ==
    SetMax({0} \cup {i \in 1..k : L[i].kind \in {"commit", "table"}})

\* The table that is open after the first k lines: <<>> when none is
OpenName(L, k) ==
    LET b == LastBoundary(L, k)
    IN  IF b > 0 /\ L[b].kind = "table" THEN L[b].name ELSE <<>>

\* Line i closes an open table: a COMMIT or a table header met with a table
\* open.
ClosesTable(L, i) ==
    L[i].kind \in {"commit", "table"} /\ OpenName(L, i - 1) # <<>>

\* The line that flushed the table held under `name` (the end of the stream
\* counts as line Len(L) + 1)
FlushLine(L, name) ==
    SetMax({i \in 1..Len(L) : ClosesTable(L, i) /\ OpenName(L, i - 1) = name}
           \cup (IF pc = "returned" /\ OpenName(L, Len(L)) = name
                 THEN {Len(L) + 1} ELSE {}))

\* The parser after the lines of a text, before any end of stream
RECURSIVE Replay(_)
Replay(lines) ==
    IF lines = <<>> THEN NewParser
    ELSE handleLine(Replay(SubSeq(lines, 1, Len(lines) - 1)), lines[Len(lines)])

RuleTexts(chain) == {chain.Rules[i].Rule : i \in 1..Len(chain.Rules)}

\* ------------------------------------------------------------------ claims

\* C1: ParseIptablesSave never returns a partial result.  When the input
\* held an invalid line (a parse error was recorded), the returned Tables is
\* nil and the returned error is the aggregate parse error; a non-nil Tables
\* is returned only with a nil error.
C1_NoPartialResult ==
    pc = "returned" =>
        /\ ((\E i \in 1..Len(input) : Invalid(input[i])) \/ parser.err # NilErr) =>
              /\ ret.tables = NilMap
              /\ ret.err = parser.err
              /\ ret.err # NilErr
        /\ ~ret.tables.nil => ret.err = NilErr

\* A parse that had flushed a table and recorded an error has returned.
C1_Witness ==
    /\ pc = "returned"
    /\ ~parser.result.nil
    /\ parser.err # NilErr
    /\ ret.tables.nil

\* C2: malformed lines never truncate the scan.  The aggregate error wraps
\* exactly one ParseError per invalid line delivered so far, each carrying
\* that line's number, and handleLine has taken in every line delivered,
\* those after an invalid one too.
C2_ErrorPerInvalidLine ==
    LET leaves  == Leaves(parser.err)
        invalid == {i \in 1..Len(input) : Invalid(input[i])}
    IN  /\ Len(leaves) = Cardinality(invalid)
        /\ {leaves[k].LineNumber : k \in 1..Len(leaves)} = invalid
        /\ parser.line = Len(input)

\* An invalid line, then a table header that took effect, then another
\* invalid line: both errors are held.
C2_Witness ==
    /\ Len(input) = 3
    /\ Invalid(input[1]) /\ IsTableHeader(input[2]) /\ Invalid(input[3])
    /\ parser.currentTableName = HeaderName(input[2])
    /\ parser.currentTableName # <<>>
    /\ Len(Leaves(parser.err)) = 2

\* C3: end of stream performs one final flush.  When a parse returns without
\* error and the last COMMIT-or-header line of the input is a header `*name`
\* (name non-empty), the returned Tables holds name, bound to the table as it
\* stood open at the end of the input: with every chain declared since the
\* header, and every rule met since whose chain was not re-declared later.
C3_FinalFlush ==
    LET L    == Shapes
        n    == Len(input)
        h    == LastBoundary(L, n)
        name == OpenName(L, n)
    IN  (pc = "returned" /\ ret.err = NilErr /\ name # <<>>) =>
            /\ ~ret.tables.nil
            /\ name \in Keys(ret.tables)
            /\ ret.tables.m[name] = Replay(input).currentTable
            /\ \A i \in (h + 1)..n :
                 L[i].kind = "chain" => L[i].name \in Keys(ret.tables.m[name])
            /\ \A i \in (h + 1)..n :
                 ( /\ L[i].kind = "rule"
                   /\ \A j \in (i + 1)..n :
                        ~(L[j].kind = "chain" /\ L[j].name = L[i].name) ) =>
                     /\ L[i].name \in Keys(ret.tables.m[name])
                     /\ L[i].text \in RuleTexts(ret.tables.m[name].m[L[i].name])

\* A dump that ends on a rule line, no COMMIT after the header, has returned
\* its table with that rule.
C3_Witness ==
    LET L == Shapes
    IN  /\ pc = "returned"
        /\ ret.err = NilErr
        /\ OpenName(L, Len(L)) # <<>>
        /\ L[Len(L)].kind = "rule"
        /\ \E c \in Keys(ret.tables.m[OpenName(L, Len(L))]) :
             ret.tables.m[OpenName(L, Len(L))].m[c].Rules # <<>>

\* C4, as stated: duplicate rule lines within one chain of one table collapse
\* to one Rule entry that keeps the counters of the first occurrence.  Taken
\* on the dumps of one table (the header is the first line, no other header
\* or COMMIT follows): every Rule entry returned carries the Packets and
\* Bytes of the first rule line of its chain and text.
C4_FirstOccurrence ==
    LET L == Shapes
        n == Len(input)
    IN  ( /\ pc = "returned" /\ ret.err = NilErr
          /\ {i \in 1..n : L[i].kind \in {"commit", "table"}} = {1}
          /\ OpenName(L, n) # <<>> ) =>
            \A c \in Keys(ret.tables.m[OpenName(L, n)]) :
                LET rules == ret.tables.m[OpenName(L, n)].m[c].Rules
                IN  \A k \in 1..Len(rules) :
                        LET first == SetMin({i \in 1..n :
                                        /\ L[i].kind = "rule"
                                        /\ L[i].name = c
                                        /\ L[i].text = rules[k].Rule})
                        IN  /\ rules[k].Packets = L[first].packets
                            /\ rules[k].Bytes = L[first].bytes

\* The last line among the first k that reset the rules of chain c: a chain
\* header declaring c, or a line that closed the open table (0 when none).
LastReset(L, c, k) ==
    SetMax({0} \cup {i \in 1..k : ClosesTable(L, i)}
               \cup {i \in 1..k : L[i].kind = "chain" /\ L[i].name = c})

\* The rule lines of chain c and rule text `text` since that reset
Occurrences(L, c, text, k) ==
    {i \in (LastReset(L, c, k) + 1)..k :
        L[i].kind = "rule" /\ L[i].name = c /\ L[i].text = text}

\* `table` is the chain mapping after the first k lines: every rule line
\* since the last reset of its chain has exactly one entry of its text in
\* that chain, and every entry carries the counters of the first such line.
FirstSinceReset(L, table, k) ==
    /\ \A i \in 1..k :
         (L[i].kind = "rule" /\ i > LastReset(L, L[i].name, k)) =>
             /\ L[i].name \in Keys(table)
             /\ Cardinality({j \in 1..Len(table.m[L[i].name].Rules) :
                    table.m[L[i].name].Rules[j].Rule = L[i].text}) = 1
    /\ \A c \in Keys(table) :
         \A j \in 1..Len(table.m[c].Rules) :
             LET e   == table.m[c].Rules[j]
                 occ == Occurrences(L, c, e.Rule, k)
             IN  /\ occ # {}
                 /\ e.Packets = L[SetMin(occ)].packets
                 /\ e.Bytes = L[SetMin(occ)].bytes

\* C4, amended: duplicate rule lines of one chain collapse to one Rule entry,
\* which keeps the counters of the first occurrence since the chain's rules
\* were last reset (by a chain header declaring the chain, or by the line that
\* closed the table open before).  In the open table, in the flushed tables
\* and in the returned Tables.
C4_FirstSinceReset ==
    LET L == Shapes
    IN  /\ pc = "scan" => FirstSinceReset(L, parser.currentTable, Len(L))
        /\ \A t \in Keys(parser.result) :
             FirstSinceReset(L, parser.result.m[t], FlushLine(L, t) - 1)
        /\ \A t \in Keys(ret.tables) :
             FirstSinceReset(L, ret.tables.m[t], FlushLine(L, t) - 1)

\* A table was returned with one entry, of the first line's counters, for a
\* rule text that two lines with different counters carried.
C4_Witness ==
    LET L == Shapes
    IN  /\ pc = "returned"
        /\ \E t \in Keys(ret.tables) : \E c \in Keys(ret.tables.m[t]) :
             \E i, j \in 1..Len(L) :
                /\ i < j
                /\ L[i].kind = "rule" /\ L[j].kind = "rule"
                /\ {i, j} \subseteq Occurrences(L, c, L[i].text, FlushLine(L, t) - 1)
                /\ i = SetMin(Occurrences(L, c, L[i].text, FlushLine(L, t) - 1))
                /\ L[i].packets # L[j].packets
                /\ ret.tables.m[t].m[c].Rules = <<[Packets |-> L[i].packets,
                                                   Bytes |-> L[i].bytes,
                                                   Rule |-> L[i].text]>>

\* C5: no chain ever holds two Rule entries with equal rule text, in the
\* open table, in the flushed tables and in the returned Tables.
UniqueRules(table) ==
    \A c \in Keys(table) :
        \A i, j \in 1..Len(table.m[c].Rules) :
            i # j => table.m[c].Rules[i].Rule # table.m[c].Rules[j].Rule

C5_RuleTextUnique ==
    /\ UniqueRules(parser.currentTable)
    /\ \A t \in Keys(parser.result) : UniqueRules(parser.result.m[t])
    /\ \A t \in Keys(ret.tables) : UniqueRules(ret.tables.m[t])

\* A returned chain holds two rules, and the input held three rule lines for
\* that chain, two of them with the same text.
C5_Witness ==
    LET L == Shapes
    IN  /\ pc = "returned"
        /\ \E t \in Keys(ret.tables) : \E c \in Keys(ret.tables.m[t]) :
             /\ Len(ret.tables.m[t].m[c].Rules) = 2
             /\ \E i, j \in 1..Len(L) :
                  /\ i < j
                  /\ L[i].kind = "rule" /\ L[j].kind = "rule"
                  /\ L[i].name = c /\ L[j].name = c
                  /\ L[i].text = L[j].text

\* A well-formed dump: no invalid line; every table header names a table,
\* and no two name the same; chain headers and rule lines stand inside a
\* table; no chain is declared twice in a table.
WellFormed(L) ==
    /\ \A i \in 1..Len(L) : L[i].kind # "invalid"
    /\ \A i \in 1..Len(L) : L[i].kind = "table" => L[i].name # <<>>
    /\ \A i, j \in 1..Len(L) :
         (i < j /\ L[i].kind = "table" /\ L[j].kind = "table") => L[i].name # L[j].name
    /\ \A i \in 1..Len(L) :
         L[i].kind \in {"chain", "rule"} => OpenName(L, i - 1) # <<>>
    /\ \A i, j \in 1..Len(L) :
         (i < j /\ L[i].kind = "chain" /\ L[j].kind = "chain"
            /\ LastBoundary(L, i) = LastBoundary(L, j)) => L[i].name # L[j].name

\* C6: for every well-formed dump parsed without error, every chain declared
\* by a chain header is in the returned Tables, under the table open at that
\* line and under its name, with the declared Policy, Packets and Bytes.
C6_DeclaredChainsReturned ==
    LET L == Shapes
    IN  (pc = "returned" /\ ret.err = NilErr /\ WellFormed(L)) =>
            \A i \in 1..Len(L) :
                L[i].kind = "chain" =>
                    LET t == OpenName(L, i - 1)
                    IN  /\ t \in Keys(ret.tables)
                        /\ L[i].name \in Keys(ret.tables.m[t])
                        /\ ret.tables.m[t].m[L[i].name].Policy = L[i].policy
                        /\ ret.tables.m[t].m[L[i].name].Packets = L[i].packets
                        /\ ret.tables.m[t].m[L[i].name].Bytes = L[i].bytes

\* A well-formed dump declaring two chains, one of them with zero counters
\* and no rule, has returned both.
C6_Witness ==
    LET L == Shapes
    IN  /\ pc = "returned" /\ ret.err = NilErr /\ WellFormed(L)
        /\ \E t \in Keys(ret.tables) :
             /\ Cardinality(Keys(ret.tables.m[t])) = 2
             /\ \E c \in Keys(ret.tables.m[t]) :
                  ret.tables.m[t].m[c] =
                      [Policy |-> <<"-">>, Packets |-> Uint64Zero,
                       Bytes |-> Uint64Zero, Rules |-> <<>>]
             /\ \E i \in 1..Len(L) : L[i].kind = "chain" /\ L[i].packets = Uint64Zero

\* C7: rule insertion never crashes when the rule's target chain is not in
\* the open table (whether or not a chain header was handled since the
\* table was opened): the parser goes on, and the open table then holds that
\* chain with empty Policy, zero counters and the rule.
C7_RuleInsertionNeverCrashes ==
    LET L == Shapes
        n == Len(L)
    IN  ( /\ pc # "returned" /\ n >= 1
          /\ L[n].kind = "rule"
          /\ OpenName(L, n - 1) # <<>>
          /\ L[n].name \notin Keys(Replay(SubSeq(input, 1, n - 1)).currentTable) ) =>
            /\ pc = "scan"
            /\ L[n].name \in Keys(parser.currentTable)
            /\ parser.currentTable.m[L[n].name] =
                   [Policy |-> <<>>, Packets |-> Uint64Zero, Bytes |-> Uint64Zero,
                    Rules |-> <<[Packets |-> L[n].packets, Bytes |-> L[n].bytes,
                                 Rule |-> L[n].text]>>]

\* The ParseError messages the aggregate error holds for line i
MessagesAt(i) ==
    LET leaves == Leaves(parser.err)
    IN  {leaves[k].Message : k \in {j \in 1..Len(leaves) : leaves[j].LineNumber = i}}

\* C8, as stated: a rule line that lacks both a valid leading counters token
\* and an "-A <chain>" pair has both errors reported.
C8_BothErrorsReported ==
    \A i \in 1..Len(input) :
        ( /\ IsRuleLine(input[i])
          /\ ~HasCounters(Fields(input[i])[1])
          /\ ~HasTarget(input[i]) ) =>
            {"expected [packets:bytes]", "expected -A chain ..."} \subseteq MessagesAt(i)

\* C8, amended: a rule line is reported once.  When its leading counters
\* token is missing or malformed, the counters error alone is reported,
\* whether or not the line names a target chain; the missing target is
\* reported for the rule lines whose counters token is valid.
C8_FirstErrorOnly ==
    \A i \in 1..Len(input) :
        IsRuleLine(input[i]) =>
            /\ ~HasCounters(Fields(input[i])[1]) =>
                   MessagesAt(i) = {"expected [packets:bytes]"}
            /\ (HasCounters(Fields(input[i])[1]) /\ ~HasTarget(input[i])) =>
                   MessagesAt(i) = {"expected -A chain ..."}
            /\ Cardinality({k \in 1..Len(Leaves(parser.err)) :
                               Leaves(parser.err)[k].LineNumber = i}) <= 1

\* A rule line lacking both was handled, and one lacking only the target.
C8_Witness ==
    /\ \E i \in 1..Len(input) :
         /\ IsRuleLine(input[i])
         /\ ~HasCounters(Fields(input[i])[1])
         /\ ~HasTarget(input[i])
         /\ MessagesAt(i) = {"expected [packets:bytes]"}
    /\ \E i \in 1..Len(input) :
         /\ IsRuleLine(input[i])
         /\ HasCounters(Fields(input[i])[1])
         /\ MessagesAt(i) = {"expected -A chain ..."}

\* C9: right after a table header line is handled the open table's chain
\* mapping is empty, whatever came before; and a flushed table holds only
\* chains that a line between its header and its flush named.
C9_NewTableStartsEmpty ==
    LET L == Shapes
        n == Len(L)
    IN  /\ (pc = "scan" /\ n >= 1 /\ L[n].kind = "table" /\ L[n].name # <<>>) =>
               Keys(parser.currentTable) = {}
        /\ \A t \in Keys(parser.result) :
             \A c \in Keys(parser.result.m[t]) :
                 \E i \in (LastBoundary(L, FlushLine(L, t) - 1) + 1)..(FlushLine(L, t) - 1) :
                     L[i].kind \in {"chain", "rule"} /\ L[i].name = c

\* The number of metrics of descriptor desc that Collect has sent
Sent(desc) ==
    LET ms == {m \in BagToSet(metricChan) : m.desc = desc}
        RECURSIVE Sum(_)
        Sum(S) == IF S = {} THEN 0
                  ELSE LET m == CHOOSE x \in S : TRUE
                       IN  CopiesIn(m, metricChan) + Sum(S \ {m})
    IN  Sum(ms)

\* C10: every collection cycle reports timing and a success signal and never
\* crashes the host process.  No goroutine of the cycle panics; and when
\* Collect is done it has sent exactly one scrape-duration metric and exactly
\* one scrape-success metric, of value 0 and with no chain or rule metric
\* when GetTables returned an error, of value 1 otherwise.
C10_CycleReportsAndNeverCrashes ==
    /\ pc # "panic"
    /\ cpc = "done" =>
         /\ Sent("iptables_scrape_duration_seconds") = 1
         /\ Sent("iptables_scrape_success") = 1
         /\ got.err # NilErr =>
              /\ CopiesIn(Metric("iptables_scrape_success", 0, <<>>), metricChan) = 1
              /\ BagCardinality(metricChan) = 2
         /\ got.err = NilErr =>
              CopiesIn(Metric("iptables_scrape_success", 1, <<>>), metricChan) = 1

\* C11: GetTables surfaces the failures of the process apart from those of
\* the parse.  Once it has returned: when cmd.Start failed it has returned
\* (nil, the start error); when the process exited with a non-zero status it
\* has returned (nil, the exit error), whatever ParseIptablesSave returned;
\* and what ParseIptablesSave returned (its Tables, the aggregate parse error
\* or the read error) is what GetTables returns when, and only when, the
\* process was started and exited with status zero.
C11_ProcessFailuresFirst ==
    cpc \in {"emit", "done"} =>
        /\ cmd = "startfailed" => got = [tables |-> NilMap, err |-> StartErr]
        /\ cmd = "failed" => got = [tables |-> NilMap, err |-> ExitErr]
        /\ cmd = "exited" => got = ret /\ pc = "sent"
        /\ (~got.tables.nil \/ got.err \notin {NilErr, PipeErr, StartErr, ExitErr}) =>
               cmd = "exited"
        /\ got.err \in {PipeErr, StartErr, ExitErr} => got.tables = NilMap

\* The process wrote malformed lines and exited with a non-zero status: the
\* parse returned its aggregate error, GetTables the exit error.
C11_Witness ==
    /\ cpc = "done"
    /\ cmd = "failed"
    /\ Leaves(ret.err) # <<>>
    /\ r = ret
    /\ got = [tables |-> NilMap, err |-> ExitErr]

\* The last chain header declaring chain c among the first k lines (0 when
\* none)
LastDeclaration(L, c, k) ==
    SetMax({0} \cup {i \in 1..k : L[i].kind = "chain" /\ L[i].name = c})

\* The rule lines of chain c and rule text `text` after line d, up to line k
RuleLinesSince(L, c, text, d, k) ==
    {i \in (d + 1)..k : L[i].kind = "rule" /\ L[i].name = c /\ L[i].text = text}

\* `table` is the chain mapping flushed by line f, its header being line h.
\* For every chain of it whose rule lines since its last declaration all
\* stand in the table (after the header): the entries of Rules are in the
\* order of the first occurrences of their texts since that declaration.
FirstSeenOrder(L, table, h, f) ==
    \A c \in Keys(table) :
        LET d     == LastDeclaration(L, c, f - 1)
            rules == table.m[c].Rules
        IN  (\A i \in (d + 1)..h : ~(L[i].kind = "rule" /\ L[i].name = c)) =>
                /\ \A j \in 1..Len(rules) :
                      RuleLinesSince(L, c, rules[j].Rule, d, f - 1) # {}
                /\ \A j1, j2 \in 1..Len(rules) :
                      j1 < j2 =>
                          SetMin(RuleLinesSince(L, c, rules[j1].Rule, d, f - 1))
                            < SetMin(RuleLinesSince(L, c, rules[j2].Rule, d, f - 1))

\* C12: rules preserve first-seen order.  For any two rules of a chain of
\* the result, their order in the chain's Rules is the order in which the
\* first occurrences of their texts appeared in the input since the chain's
\* last declaration.  In the flushed tables and in the returned Tables.
C12_FirstSeenOrder ==
    LET L == Shapes
    IN  /\ \A t \in Keys(parser.result) :
             FirstSeenOrder(L, parser.result.m[t],
                            LastBoundary(L, FlushLine(L, t) - 1), FlushLine(L, t))
        /\ \A t \in Keys(ret.tables) :
             FirstSeenOrder(L, ret.tables.m[t],
                            LastBoundary(L, FlushLine(L, t) - 1), FlushLine(L, t))

\* A returned chain, declared in its table, holds two rules in the order of
\* their first lines, the text of the first having come again after the
\* second.
C12_Witness ==
    LET L == Shapes
    IN  /\ pc = "returned"
        /\ \E t \in Keys(ret.tables) : \E c \in Keys(ret.tables.m[t]) :
             LET rules == ret.tables.m[t].m[c].Rules
             IN  /\ Len(rules) = 2
                 /\ LastDeclaration(L, c, Len(L)) > LastBoundary(L, Len(L))
                 /\ \E i, j, k \in 1..Len(L) :
                      /\ i < j /\ j < k
                      /\ L[i].kind = "rule" /\ L[i].text = rules[1].Rule
                      /\ L[j].kind = "rule" /\ L[j].text = rules[2].Rule
                      /\ L[k].kind = "rule" /\ L[k].text = rules[1].Rule

\* C13: a successful chain-header line creates or overwrites the chain in
\* the open table with the parsed Policy, Packets and Bytes and an empty
\* Rules; the other chains, the result and the error are as they were.  So a
\* chain declared again loses the rules it held: every rule of a chain of the
\* open table comes from a rule line after the chain's last declaration.
C13_ChainHeaderResetsRules ==
    LET L      == Shapes
        n      == Len(L)
        before == Replay(SubSeq(input, 1, n - 1))
    IN  /\ (pc = "scan" /\ n >= 1 /\ L[n].kind = "chain") =>
               /\ ~parser.currentTable.nil
               /\ Keys(parser.currentTable) = Keys(before.currentTable) \cup {L[n].name}
               /\ parser.currentTable.m[L[n].name] =
                      [Policy |-> L[n].policy, Packets |-> L[n].packets,
                       Bytes |-> L[n].bytes, Rules |-> <<>>]
               /\ \A c \in Keys(before.currentTable) \ {L[n].name} :
                      parser.currentTable.m[c] = before.currentTable.m[c]
               /\ parser.result = before.result
               /\ parser.currentTableName = before.currentTableName
               /\ parser.err = before.err
        /\ pc = "scan" =>
               \A c \in Keys(parser.currentTable) :
                   \A j \in 1..Len(parser.currentTable.m[c].Rules) :
                       RuleLinesSince(L, c, parser.currentTable.m[c].Rules[j].Rule,
                                      LastDeclaration(L, c, n), n) # {}

\* A chain that held a rule has been declared again, with another policy
\* and other counters: it holds no rule.
C13_Witness ==
    LET L      == Shapes
        n      == Len(L)
        before == Replay(SubSeq(input, 1, n - 1))
    IN  /\ pc = "scan" /\ n >= 1
        /\ L[n].kind = "chain"
        /\ parser.currentTableName # <<>>
        /\ L[n].name \in Keys(before.currentTable)
        /\ before.currentTable.m[L[n].name].Rules # <<>>
        /\ before.currentTable.m[L[n].name].Policy # L[n].policy
        /\ parser.currentTable.m[L[n].name].Rules = <<>>

\* C14: each table-open is committed exactly once.  A table is open from its
\* `*name` header (name non-empty) to the first COMMIT, table header or end
\* of stream after it and no longer; the step that handles that line writes
\* the open table to the result under its name, and closes it; a COMMIT, a
\* table header or an end of stream met with no table open leaves the result
\* and the open table as they were (flush is a no-op); and no other line
\* changes the result or the open name.
C14_CommittedOnce ==
    /\ [](pc = "scan" => parser.currentTableName = OpenName(Shapes, Len(input)))
    /\ [][ /\ input' # input =>
               LET l == ShapeOf[input'[Len(input')]]
               IN  /\ (l.kind \in {"commit", "table"} /\ parser.currentTableName # <<>>) =>
                          /\ parser'.result = MapPut(parser.result,
                                                     parser.currentTableName,
                                                     parser.currentTable)
                          /\ parser'.currentTableName =
                                 (IF l.kind = "table" THEN l.name ELSE <<>>)
                          /\ parser'.currentTable = NilMap
                   /\ (l.kind \in {"commit", "table"} /\ parser.currentTableName = <<>>) =>
                          /\ parser'.result = parser.result
                          /\ parser'.currentTable = parser.currentTable
                   /\ l.kind \notin {"commit", "table"} =>
                          /\ parser'.result = parser.result
                          /\ parser'.currentTableName = parser.currentTableName
           /\ (pc = "scan" /\ pc' = "returned") =>
               /\ parser.currentTableName # <<>> =>
                      /\ parser'.result = MapPut(parser.result,
                                                 parser.currentTableName,
                                                 parser.currentTable)
                      /\ parser'.currentTableName = <<>>
                      /\ parser'.currentTable = NilMap
               /\ parser.currentTableName = <<>> => parser' = parser
         ]_vars

\* A table was opened, filled and committed, and a second COMMIT followed:
\* the result holds the table as the first COMMIT found it.
C14_Witness ==
    LET L == Shapes
        n == Len(L)
    IN  /\ pc = "scan" /\ n >= 4
        /\ L[n].kind = "commit" /\ L[n - 1].kind = "commit"
        /\ ClosesTable(L, n - 1)
        /\ Keys(parser.result) = {OpenName(L, n - 2)}
        /\ parser.result.m[OpenName(L, n - 2)] =
               Replay(SubSeq(input, 1, n - 2)).currentTable
        /\ Keys(parser.result.m[OpenName(L, n - 2)]) # {}
        /\ parser.currentTableName = <<>>

\* C15: a line that is blank after whitespace trimming, or whose trimmed text
\* begins with `#`, is ignored.  The step that handles it counts the line and
\* leaves the result, the open table name, the open table (its chains and
\* their rules) and the accumulated error as they were; the parse goes on.
C15_IgnoredLineChangesNothing ==
    [][ (input' # input /\ IsIgnored(input'[Len(input')])) =>
            /\ parser'.result = parser.result
            /\ parser'.currentTableName = parser.currentTableName
            /\ parser'.currentTable = parser.currentTable
            /\ parser'.err = parser.err
            /\ parser'.line = parser.line + 1
            /\ pc' = "scan"
      ]_vars

\* A comment line was handled with a table open that holds a chain: the
\* parser is as before the line, but for the line count.
C15_Witness ==
    LET n == Len(input)
    IN  /\ pc = "scan" /\ n >= 3
        /\ TrimSpace(input[n]) # <<>>
        /\ Head(TrimSpace(input[n])) = "#"
        /\ parser.currentTableName # <<>>
        /\ Keys(parser.currentTable) # {}
        /\ parser = [Replay(SubSeq(input, 1, n - 1)) EXCEPT !.line = n]

\* C16: every ParseError of the aggregate carries the 1-based position of
\* its line in the input, all the lines before it counted (the blank and the
\* comment ones too), and the text of that line after whitespace trimming;
\* the errors stand in the aggregate in the order of their lines; and the
\* aggregate returned is the one accumulated.
C16_ErrorsLocateTheirLines ==
    LET leaves == Leaves(parser.err)
    IN  /\ \A k \in 1..Len(leaves) :
             /\ leaves[k].kind = "ParseError"
             /\ leaves[k].LineNumber \in 1..Len(input)
             /\ Invalid(input[leaves[k].LineNumber])
             /\ leaves[k].LineText = TrimSpace(input[leaves[k].LineNumber])
        /\ \A k1, k2 \in 1..Len(leaves) :
             k1 < k2 => leaves[k1].LineNumber < leaves[k2].LineNumber
        /\ (pc = "returned" /\ leaves # <<>>) => Leaves(ret.err) = leaves

\* A parse has returned two errors, for the lines 2 and 3 of an input whose
\* first line is blank or a comment, the text of line 2 being carried without
\* the whitespace around it.
C16_Witness ==
    LET leaves == Leaves(ret.err)
    IN  /\ pc = "returned"
        /\ Len(input) = 3
        /\ IsIgnored(input[1])
        /\ Len(leaves) = 2
        /\ leaves[1].LineNumber = 2 /\ leaves[2].LineNumber = 3
        /\ leaves[1].LineText # input[2]
        /\ leaves[1].LineText = TrimSpace(input[2])
        /\ leaves[1].Message # leaves[2].Message

\* The number a digit string writes, as its numeral without leading zeros
Numeral(s) ==
    LET k == SetMin({i \in 1..Len(s) : s[i] # "0"} \cup {Len(s)})
    IN  SubSeq(s, k, Len(s))

\* The number a digit string writes is at most 2^64-1: its numeral is
\* shorter than that of 2^64-1, or as long and not after it in the order of
\* the numerals.
FitsUint64(s) ==
    LET c == Numeral(s)
        m == MaxUint64Digits
    IN  \/ Len(c) < Len(m)
        \/ /\ Len(c) = Len(m)
           /\ ~\E i \in 1..Len(m) :
                  /\ DigitValue(c[i]) > DigitValue(m[i])
                  /\ \A j \in 1..(i - 1) : c[j] = m[j]

\* The places of a token where it splits as `[p:b]`, p and b digit strings
\* (at most one place: a digit string holds no colon)
CounterSplits(token) ==
    {i \in 3..(Len(token) - 2) :
        /\ token[1] = "[" /\ token[i] = ":" /\ token[Len(token)] = "]"
        /\ \A j \in 2..(i - 1) : token[j] \in Digits
        /\ \A j \in (i + 1)..(Len(token) - 1) : token[j] \in Digits}

PacketsOf(token) == SubSeq(token, 2, SetMin(CounterSplits(token)) - 1)

BytesOf(token) == SubSeq(token, SetMin(CounterSplits(token)) + 1, Len(token) - 1)

\* A counters token to accept: `[p:b]` with both numbers in the uint64 range
AcceptableCounters(token) ==
    /\ CounterSplits(token) # {}
    /\ FitsUint64(PacketsOf(token))
    /\ FitsUint64(BytesOf(token))

\* C17: a counters token is accepted only if it is `[p:b]` with p and b digit
\* strings whose values fit in an unsigned 64-bit integer.  A chain header of
\* three fields, or a rule line, whose counters token is not so is reported
\* with the counters error and stores nothing; one whose token is so stores
\* the very numbers p and b, neither wrapped nor truncated.
C17_CountersFitUint64 ==
    LET n      == Len(input)
        before == Replay(SubSeq(input, 1, n - 1))
        f      == Fields(input[n])
    IN  (n >= 1 /\ pc \in {"scan", "panic"}) =>
        /\ (IsChainLine(input[n]) /\ Len(f) = 3) =>
              IF AcceptableCounters(f[3])
              THEN /\ parser.err = before.err
                   /\ parser.currentTable.m[Tail(f[1])] =
                          [Policy |-> f[2], Packets |-> Numeral(PacketsOf(f[3])),
                           Bytes |-> Numeral(BytesOf(f[3])), Rules |-> <<>>]
              ELSE /\ MessagesAt(n) = {"expected [packets:bytes]"}
                   /\ parser.currentTable = before.currentTable
        /\ (IsRuleLine(input[n]) /\ HasTarget(input[n])) =>
              IF AcceptableCounters(f[1])
              THEN /\ parser.err = before.err
                   /\ ( /\ ~before.currentTable.nil
                        /\ RuleTextOf(input[n]) \notin
                              RuleTexts(MapGet(before.currentTable,
                                               RuleChainOf(input[n]), ZeroChain)) ) =>
                          LET rules == parser.currentTable.m[RuleChainOf(input[n])].Rules
                          IN  rules[Len(rules)] =
                                  [Packets |-> Numeral(PacketsOf(f[1])),
                                   Bytes |-> Numeral(BytesOf(f[1])),
                                   Rule |-> RuleTextOf(input[n])]
              ELSE /\ MessagesAt(n) = {"expected [packets:bytes]"}
                   /\ parser.currentTable = before.currentTable

\* A chain header whose counters are both 2^64-1 was stored with them, a
\* rule line with 7 behind leading zeros was stored as 7, and a chain header
\* whose packets are 2^64 was reported and left the table alone.
C17_Witness ==
    /\ pc = "scan"
    /\ input = <<ChainWith(CtrMax), RuleWith(CtrZeros), ChainWith(CtrPacketsOver)>>
    /\ parser.currentTable.m[<<"I">>] =
           [Policy |-> <<"A">>, Packets |-> MaxUint64Digits, Bytes |-> MaxUint64Digits,
            Rules |-> <<[Packets |-> <<"7">>, Bytes |-> <<"0">>, Rule |-> <<"-", "j">>]>>]
    /\ MessagesAt(3) = {"expected [packets:bytes]"}
    /\ Len(Leaves(parser.err)) = 1

\* C18: a line that records a parse error (a chain header with a wrong field
\* count or bad counters, a rule line with bad counters or no target chain,
\* an unhandled line) changes only the accumulated error, which gains one
\* ParseError, and the line counter: the result, the open table name and the
\* open table (its chains and their rules) are as they were.
C18_ErrorLineChangesOnlyErr ==
    [][ (input' # input /\ Invalid(input'[Len(input')])) =>
            /\ parser'.result = parser.result
            /\ parser'.currentTableName = parser.currentTableName
            /\ parser'.currentTable = parser.currentTable
            /\ parser'.line = parser.line + 1
            /\ parser'.err # parser.err
            /\ Len(Leaves(parser'.err)) = Len(Leaves(parser.err)) + 1
            /\ pc' = "scan"
      ]_vars

\* A line was reported with a table open that holds a chain: the open table
\* and its name are as the line found them.
C18_Witness ==
    LET n      == Len(input)
        before == Replay(SubSeq(input, 1, n - 1))
    IN  /\ pc = "scan" /\ n >= 3
        /\ Invalid(input[n])
        /\ parser.currentTableName # <<>>
        /\ Keys(parser.currentTable) # {}
        /\ parser.currentTable = before.currentTable
        /\ parser.currentTableName = before.currentTableName
        /\ MessagesAt(n) # {}

\* C19: on every path by which GetTables returns, the parser goroutine it
\* started terminates in the end: its send on resultCh is received, also
\* when cmd.Start has failed.
C19_ParserGoroutineTerminates ==
    (cpc \in {"emit", "done"} /\ pc # "idle") ~> (pc = "sent")

\* The last line before line f that closed an open table (0 when none)
PreviousClose(L, f) == SetMax({0} \cup {i \in 1..(f - 1) : ClosesTable(L, i)})

\* C20: what the result holds under a table name is the chain mapping of the
\* last flushed occurrence of that name, and nothing of an earlier one: it
\* is the open table as the last flush of the name found it, and each of its
\* chains is named by a line after the close before that flush.  So is what
\* a parse without error returns.
C20_LastFlushReplaces ==
    LET L == Shapes
    IN  /\ \A t \in Keys(parser.result) :
             LET f == FlushLine(L, t)
             IN  /\ parser.result.m[t] = Replay(SubSeq(input, 1, f - 1)).currentTable
                 /\ \A c \in Keys(parser.result.m[t]) :
                        \E i \in (PreviousClose(L, f) + 1)..(f - 1) :
                            L[i].kind \in {"chain", "rule"} /\ L[i].name = c
        /\ (pc = "returned" /\ ret.err = NilErr) => ret.tables = parser.result

\* A table name was opened twice, a chain declared in the first occurrence
\* only and another in the second: the Tables returned hold the second under
\* that name, not the first.
C20_Witness ==
    LET L == Shapes
    IN  /\ pc = "returned" /\ ret.err = NilErr
        /\ \E i, j \in 1..Len(L) :
             /\ i < j
             /\ L[i].kind = "table" /\ L[j].kind = "table"
             /\ L[i].name = L[j].name /\ L[i].name # <<>>
             /\ \E a \in (i + 1)..(j - 1) : \E b \in (j + 1)..Len(L) :
                  /\ L[a].kind = "chain" /\ L[b].kind = "chain"
                  /\ L[a].name # L[b].name
                  /\ Keys(ret.tables.m[L[j].name]) = {L[b].name}

====
